---- MODULE Spec2Model ----
(***************************************************************************)
(* Model of src/app.js: the overlay controller (openOverlay, closeOverlay, *)
(* closeAllOverlays, toggleOverlay, the document click / keydown           *)
(* listeners) and the translation service (init, loadLanguage,             *)
(* applyTranslations, getTranslationValue).                                *)
(***************************************************************************)
EXTENDS Integers, Sequences, FiniteSets, TLC

VARIABLES
    active,         \* element id -> "active" is in the element's classList
    overflow,       \* document.body.style.overflow
    fault,          \* uncaught error of the last overlay call / listener
    last,           \* the last overlay call or event: its name and argument
    hasSelector,    \* the page has an element with id "language-select"
    inited,         \* DOMContentLoaded has fired and init() has run
    bound,          \* the "change" listener is attached to the selector
    currentLang,    \* translationService: currentLang
    translations,   \* translationService: translations (a JSON value)
    stored,         \* localStorage["nobelian-preferred-language"]
    selectorValue,  \* value shown by the language-select control
    page,           \* marked element -> its text content / target attribute
    calls,          \* top-level loadLanguage calls, in the order issued
    consoleErrors,  \* number of console.error entries written
    lastWriter,     \* position of the call whose success branch ran last (0: none)
    probe           \* a getTranslationValue(path) call and the value it returned

ovVars == <<active, overflow, fault, last>>
i18nVars == <<inited, bound, currentLang, translations, stored, selectorValue,
              page, calls, consoleErrors, lastWriter>>
vars == <<active, overflow, fault, last, hasSelector, inited, bound, currentLang,
          translations, stored, selectorValue, page, calls, consoleErrors,
          lastWriter, probe>>

(***************************************************************************)
(* The page: elements that carry an id, and the nodes a click can target.  *)
(***************************************************************************)
Null == "<null>"

ShopId == "shop-overlay"
StoriesId == "stories-overlay"
SelectorId == "language-select"
MissingId == "missing-overlay"

\* const overlays = { shop: ..., stories: ... }: the registry of handles
overlays == [shop |-> ShopId, stories |-> StoriesId]

RegisteredIds == {overlays[k] : k \in DOMAIN overlays}

\* every id an element of the page may carry
ElementIds == RegisteredIds \cup {SelectorId}

\* ids a caller may pass: the elements' ids and one id no element carries
AnyIds == ElementIds \cup {MissingId}

\* document.getElementById(id): the element, or null
GetElementById(id) ==
    IF id \in RegisteredIds \/ (id = SelectorId /\ hasSelector) THEN id ELSE Null

\* Object.values(overlays).some(ov => ov.classList.contains("active"))
AnyOverlayOpen(act) == \E k \in DOMAIN overlays : act[overlays[k]]

OvState(act, ovf, flt) == [active |-> act, overflow |-> ovf, fault |-> flt]

\* the state a handler starts from: no error raised yet
Cur == OvState(active, overflow, "none")

\* closeAllOverlays that ignores its argument
CloseAllOverlays_ignoresExcept(st, except) ==
    LET act == [e \in ElementIds |->
                   IF e \in RegisteredIds THEN FALSE ELSE st.active[e]]
    IN  [st EXCEPT !.active = act,
                   !.overflow = IF ~AnyOverlayOpen(act) THEN "auto" ELSE @]

\* closeAllOverlays(except = null)
CloseAllOverlays(st, except) ==
    LET act == [e \in ElementIds |->
                   IF e \in RegisteredIds /\ e # except THEN FALSE
                   ELSE st.active[e]]
    IN  [st EXCEPT !.active = act,
                   !.overflow = IF ~AnyOverlayOpen(act) THEN "auto" ELSE @]

\* openOverlay without the closeAllOverlays(id) pass
OpenOverlay_noCloseAll(st, id) ==
    LET overlay == GetElementById(id)
    IN  IF overlay = Null THEN [st EXCEPT !.fault = "TypeError"]
        ELSE IF st.active[overlay] THEN st
        ELSE [st EXCEPT !.active[overlay] = TRUE, !.overflow = "hidden"]

\* openOverlay with classList.toggle in place of the early return and add
OpenOverlay_toggles(st, id) ==
    LET overlay == GetElementById(id)
        s1 == CloseAllOverlays(st, id)
    IN  IF overlay = Null THEN [s1 EXCEPT !.fault = "TypeError"]
        ELSE [s1 EXCEPT !.active[overlay] = ~@, !.overflow = "hidden"]

\* openOverlay failing on the lookup, before the close pass
OpenOverlay_checksFirst(st, id) ==
    LET overlay == GetElementById(id)
        s1 == CloseAllOverlays(st, id)
    IN  IF overlay = Null THEN [st EXCEPT !.fault = "TypeError"]
        ELSE IF s1.active[overlay] THEN s1
        ELSE [s1 EXCEPT !.active[overlay] = TRUE, !.overflow = "hidden"]

\* openOverlay(id)
OpenOverlay(st, id) ==
    LET overlay == GetElementById(id)
        s1 == CloseAllOverlays(st, id)
    IN  IF overlay = Null THEN [s1 EXCEPT !.fault = "TypeError"]
        ELSE IF s1.active[overlay] THEN s1
        ELSE [s1 EXCEPT !.active[overlay] = TRUE, !.overflow = "hidden"]

\* closeOverlay that never restores scrolling
CloseOverlay_keepsLock(st, id) ==
    LET overlay == GetElementById(id)
    IN  IF overlay = Null THEN [st EXCEPT !.fault = "TypeError"]
        ELSE [st EXCEPT !.active[overlay] = FALSE]

\* closeOverlay(id)
CloseOverlay(st, id) ==
    LET overlay == GetElementById(id)
    IN  IF overlay = Null THEN [st EXCEPT !.fault = "TypeError"]
        ELSE LET act == [st.active EXCEPT ![overlay] = FALSE]
             IN  [st EXCEPT !.active = act,
                            !.overflow = IF ~AnyOverlayOpen(act) THEN "auto" ELSE @]

\* toggleOverlay with the test inverted
ToggleOverlay_inverted(st, id) ==
    LET overlay == GetElementById(id)
    IN  IF overlay = Null THEN [st EXCEPT !.fault = "TypeError"]
        ELSE IF ~st.active[overlay] THEN CloseOverlay(st, id)
        ELSE OpenOverlay(st, id)

\* toggleOverlay(id)
ToggleOverlay(st, id) ==
    LET overlay == GetElementById(id)
    IN  IF overlay = Null THEN [st EXCEPT !.fault = "TypeError"]
        ELSE IF st.active[overlay] THEN CloseOverlay(st, id)
        ELSE OpenOverlay(st, id)

(***************************************************************************)
(* Click targets.  Each overlay element (class "overlay") holds a content  *)
(* box (class "overlay-inner") that holds an item; the navigation bar is   *)
(* outside every overlay.                                                  *)
(***************************************************************************)
Node(ov, part) == [ov |-> ov, part |-> part]

NoNode == Node(Null, "none")

Nodes ==
    {Node(Null, "body"), Node(Null, "nav")}
    \cup {Node(o, p) : o \in RegisteredIds, p \in {"overlay", "inner", "item"}}

ParentOf(n) ==
    CASE n.part = "item" -> Node(n.ov, "inner")
      [] n.part = "inner" -> Node(n.ov, "overlay")
      [] n.part = "overlay" -> Node(Null, "body")
      [] n.part = "nav" -> Node(Null, "body")
      [] OTHER -> NoNode

ClassOf(n) ==
    CASE n.part = "inner" -> "overlay-inner"
      [] n.part = "overlay" -> "overlay"
      [] OTHER -> ""

\* element.closest("." + cls): the nearest ancestor-or-self with the class
RECURSIVE Closest(_, _)
Closest(n, cls) ==
    IF n = NoNode THEN NoNode
    ELSE IF ClassOf(n) = cls THEN n
    ELSE Closest(ParentOf(n), cls)

\* the ".overlay-inner" click listeners call stopPropagation(), so a click
\* bubbling through a content box never reaches the document listener
ReachesDocument(target) == Closest(target, "overlay-inner") = NoNode

\* the click listener without the "&& clickedOverlay" test
DocumentClick_anyOutside(st, target) ==
    LET clickedInsideOverlay == Closest(target, "overlay-inner")
    IN  IF clickedInsideOverlay = NoNode
        THEN CloseAllOverlays(st, Null)
        ELSE st

\* the document "click" listener
DocumentClick(st, target) ==
    LET clickedInsideOverlay == Closest(target, "overlay-inner")
        clickedOverlay == Closest(target, "overlay")
    IN  IF clickedInsideOverlay = NoNode /\ clickedOverlay # NoNode
        THEN CloseAllOverlays(st, Null)
        ELSE st

\* a click dispatched at target: the listeners that run, in bubbling order
ClickEffect(st, target) ==
    IF ReachesDocument(target) THEN DocumentClick(st, target) ELSE st

Keys == {"Escape", "Enter"}

\* the keydown listener closing only the shop overlay
DocumentKeydown_shopOnly(st, key) ==
    IF key = "Escape" THEN CloseOverlay(st, ShopId) ELSE st

\* the document "keydown" listener
DocumentKeydown(st, key) ==
    IF key = "Escape" THEN CloseAllOverlays(st, Null) ELSE st

(***************************************************************************)
(* Translation service.  JSON values are tagged: a string, a number, an    *)
(* object (a function from its own keys to values), or undefined.          *)
(***************************************************************************)
SUPPORTED_LANGS == {"en", "hu", "de"}
DEFAULT_LANG == "en"

\* codes a caller or a stale preference may carry: the supported ones and
\* one unsupported code
Codes == SUPPORTED_LANGS \cup {"fr"}

Str(s) == [t |-> "str", s |-> s]
Num(n) == [t |-> "num", n |-> n]
Obj(f) == [t |-> "obj", f |-> f]
Undefined == [t |-> "undef"]
EmptyObj == Obj([k \in {} |-> Undefined])

\* JavaScript truthiness of a value: if (value), acc && ...
Truthy(v) ==
    CASE v.t = "str" -> v.s # ""
      [] v.t = "num" -> v.n # 0
      [] v.t = "obj" -> TRUE
      [] OTHER -> FALSE

\* Object.prototype.hasOwnProperty.call(acc, part); a string's own keys are
\* "length" and its indices (no index is among the segments modelled)
HasOwn(acc, part) ==
    CASE acc.t = "obj" -> part \in DOMAIN acc.f
      [] acc.t = "str" -> part = "length"
      [] OTHER -> FALSE

\* acc[part] for an own key
GetOwn(acc, part) ==
    IF acc.t = "obj" THEN acc.f[part] ELSE Num(Len(acc.s))

\* the string the DOM stores when value is assigned to textContent or
\* passed to setAttribute
ToText(v) ==
    CASE v.t = "str" -> v.s
      [] v.t = "num" -> ToString(v.n)
      [] v.t = "obj" -> "[object Object]"
      [] OTHER -> "undefined"

\* A key path is the sequence of its tokens, "." being the separator:
\* "nav.home" is <<"nav", ".", "home">>, "" is <<>>.
RECURSIVE SplitFrom(_, _)
SplitFrom(path, cur) ==
    IF path = <<>> THEN <<cur>>
    ELSE IF Head(path) = "." THEN <<cur>> \o SplitFrom(Tail(path), "")
    ELSE SplitFrom(Tail(path), Head(path))

\* path.split(".")
Split(path) == SplitFrom(path, "")

\* the reducer of getTranslationValue
Descend(acc, part) ==
    IF Truthy(acc) /\ HasOwn(acc, part) THEN GetOwn(acc, part) ELSE Undefined

RECURSIVE Reduce(_, _)
Reduce(parts, acc) ==
    IF parts = <<>> THEN acc ELSE Reduce(Tail(parts), Descend(acc, Head(parts)))

\* getTranslationValue(path), reading the map tr
GetTranslationValue(tr, path) ==
    IF path = <<>> THEN Str("") ELSE Reduce(Split(path), tr)

(***************************************************************************)
(* The marked elements of the page and the resources the server holds.     *)
(***************************************************************************)
Marked(id, marker, key) == [id |-> id, marker |-> marker, key |-> key]

MarkedElements ==
    { Marked("home-link", "data-i18n", <<"nav", ".", "home">>),
      Marked("shop-link", "data-i18n", <<"nav", ".", "shop">>),
      Marked("nav-box", "data-i18n", <<"nav">>),
      Marked("search-input", "data-i18n-placeholder", <<"search">>),
      Marked("close-btn", "data-i18n-aria-label", <<>>),
      Marked("logo", "data-i18n-alt", <<"brand", ".", "logo">>) }

MarkedIds == {m.id : m \in MarkedElements}

OriginalText == "original"

\* the body served at /translations/<lang>.json
Resource(lang) ==
    CASE lang = "en" ->
           Obj([nav |-> Obj([home |-> Str("Home"), shop |-> Str("Shop")]),
                search |-> Str("Search")])
      [] lang = "hu" ->
           Obj([nav |-> Obj([home |-> Str("Fooldal")]),
                search |-> Str("")])
      [] lang = "de" ->
           Obj([nav |-> Obj([home |-> Str("Start"), shop |-> Str("Laden")]),
                search |-> Str("Suche"),
                brand |-> Obj([logo |-> Str("Nobelian Logo")])])
      [] OTHER ->
           Obj([nav |-> Obj([home |-> Str("Accueil")])])

\* applyAttributeTranslations(attributeName, targetAttribute); the same
\* loop serves the text pass of applyTranslations (target: textContent)
ApplyAttributeTranslations(pg, tr, attributeName) ==
    [id \in MarkedIds |->
        LET el == CHOOSE m \in MarkedElements : m.id = id
            value == GetTranslationValue(tr, el.key)
        IN  IF el.marker = attributeName /\ Truthy(value)
            THEN ToText(value) ELSE pg[id]]

\* applyTranslations()
ApplyTranslations(pg, tr) ==
    LET p1 == ApplyAttributeTranslations(pg, tr, "data-i18n")
        p2 == ApplyAttributeTranslations(p1, tr, "data-i18n-placeholder")
        p3 == ApplyAttributeTranslations(p2, tr, "data-i18n-aria-label")
    IN  ApplyAttributeTranslations(p3, tr, "data-i18n-alt")

\* no getTranslationValue call recorded
NoProbe == [done |-> FALSE, path |-> <<>>, value |-> Undefined]

(***************************************************************************)
(* loadLanguage.  A call record follows one top-level call through its     *)
(* awaits (pc "fetch": awaiting fetch; "json": awaiting response.json())   *)
(* and through the fallback call its catch branch may issue.               *)
(***************************************************************************)
MaxCalls == 3
MaxAttempts == 3

\* what localStorage may hold when the page loads: nothing, a supported
\* code, an unsupported one
StoredAtStart == {Null, "hu", "fr"}

\* safeLang taken from the argument as it comes
SafeLang_unsanitized(lang) == lang

\* const safeLang = SUPPORTED_LANGS.includes(lang) ? lang : DEFAULT_LANG
SafeLang(lang) == IF lang \in SUPPORTED_LANGS THEN lang ELSE DEFAULT_LANG

\* the catch branch falling back whatever language failed
Retries_always(safeLang) == TRUE

\* if (safeLang !== DEFAULT_LANG) loadLanguage(DEFAULT_LANG)
Retries(safeLang) == safeLang # DEFAULT_LANG

\* loadLanguage(lang) up to its first await: the request is in flight
LoadLanguage(lang, arg, n) ==
    [arg |-> arg, safeLang |-> SafeLang(lang), pc |-> "fetch", attempts |-> n]

\* a catch branch that also drops the loaded map
Catch_dropsMap(i) ==
    LET c == calls[i]
    IN  /\ consoleErrors' = consoleErrors + 1
        /\ calls' = [calls EXCEPT ![i] =
                        IF Retries(c.safeLang) /\ c.attempts < MaxAttempts
                        THEN LoadLanguage(DEFAULT_LANG, c.arg, c.attempts + 1)
                        ELSE [c EXCEPT !.pc = "failed"]]
        /\ translations' = EmptyObj
        /\ UNCHANGED <<inited, bound, currentLang, stored, selectorValue, page,
                       lastWriter>>

\* the catch branch of the call at position i
Catch(i) ==
    LET c == calls[i]
    IN  /\ consoleErrors' = consoleErrors + 1
        /\ calls' = [calls EXCEPT ![i] =
                        IF Retries(c.safeLang) /\ c.attempts < MaxAttempts
                        THEN LoadLanguage(DEFAULT_LANG, c.arg, c.attempts + 1)
                        ELSE [c EXCEPT !.pc = "failed"]]
        /\ UNCHANGED <<inited, bound, currentLang, translations, stored,
                       selectorValue, page, lastWriter>>

\* updateLanguageSwitcher(), given the new currentLang
UpdateLanguageSwitcher(lang) ==
    IF GetElementById(SelectorId) # Null THEN lang ELSE selectorValue

\* Object.assign(translations, parsed): the old keys survive
MergeInto(old, new) ==
    Obj([k \in DOMAIN old.f \cup DOMAIN new.f |->
            IF k \in DOMAIN new.f THEN new.f[k] ELSE old.f[k]])

\* a success branch that merges the parsed map into the current one
Succeed_merges(i) ==
    LET c == calls[i]
        parsed == MergeInto(translations, Resource(c.safeLang))
    IN  /\ translations' = parsed
        /\ currentLang' = c.safeLang
        /\ stored' = c.safeLang
        /\ selectorValue' = UpdateLanguageSwitcher(c.safeLang)
        /\ page' = ApplyTranslations(page, parsed)
        /\ calls' = [calls EXCEPT ![i].pc = "applied"]
        /\ lastWriter' = i
        /\ UNCHANGED <<inited, bound, consoleErrors>>

\* a success branch that drops the response of any call but the latest
Succeed_latestCallOnly(i) ==
    LET c == calls[i]
        parsed == Resource(c.safeLang)
        fresh == i = Len(calls)
    IN  /\ translations' = IF fresh THEN parsed ELSE translations
        /\ currentLang' = IF fresh THEN c.safeLang ELSE currentLang
        /\ stored' = IF fresh THEN c.safeLang ELSE stored
        /\ selectorValue' = IF fresh THEN UpdateLanguageSwitcher(c.safeLang)
                            ELSE selectorValue
        /\ page' = IF fresh THEN ApplyTranslations(page, parsed) ELSE page
        /\ calls' = [calls EXCEPT ![i].pc = "applied"]
        /\ lastWriter' = i
        /\ UNCHANGED <<inited, bound, consoleErrors>>

\* a success branch without the localStorage.setItem call
Succeed_noPersist(i) ==
    LET c == calls[i]
        parsed == Resource(c.safeLang)
    IN  /\ translations' = parsed
        /\ currentLang' = c.safeLang
        /\ selectorValue' = UpdateLanguageSwitcher(c.safeLang)
        /\ page' = ApplyTranslations(page, parsed)
        /\ calls' = [calls EXCEPT ![i].pc = "applied"]
        /\ lastWriter' = i
        /\ UNCHANGED <<inited, bound, consoleErrors, stored>>

\* a success branch recording the language first asked for, not safeLang
Succeed_usesArg(i) ==
    LET c == calls[i]
        parsed == Resource(c.safeLang)
    IN  /\ translations' = parsed
        /\ currentLang' = c.arg
        /\ stored' = c.arg
        /\ selectorValue' = UpdateLanguageSwitcher(c.arg)
        /\ page' = ApplyTranslations(page, parsed)
        /\ calls' = [calls EXCEPT ![i].pc = "applied"]
        /\ lastWriter' = i
        /\ UNCHANGED <<inited, bound, consoleErrors>>

\* the success branch: lines 185-190 run without interruption
Succeed(i) ==
    LET c == calls[i]
        parsed == Resource(c.safeLang)
    IN  /\ translations' = parsed
        /\ currentLang' = c.safeLang
        /\ stored' = c.safeLang
        /\ selectorValue' = UpdateLanguageSwitcher(c.safeLang)
        /\ page' = ApplyTranslations(page, parsed)
        /\ calls' = [calls EXCEPT ![i].pc = "applied"]
        /\ lastWriter' = i
        /\ UNCHANGED <<inited, bound, consoleErrors>>

FetchOutcomes == {"ok", "not_ok", "network_error"}

\* the fetch of call i settles: a response (ok or not) or a rejection
FetchResponds(i, outcome) ==
    /\ i \in DOMAIN calls
    /\ calls[i].pc = "fetch"
    /\ IF outcome = "ok"
       THEN /\ calls' = [calls EXCEPT ![i].pc = "json"]
            /\ UNCHANGED <<inited, bound, currentLang, translations, stored,
                           selectorValue, page, consoleErrors, lastWriter>>
       ELSE Catch(i)
    /\ UNCHANGED <<ovVars, hasSelector, probe>>

\* response.json() of call i settles: the parsed body, or a rejection
JsonResolves(i, parses) ==
    /\ i \in DOMAIN calls
    /\ calls[i].pc = "json"
    /\ IF parses THEN Succeed(i) ELSE Catch(i)
    /\ UNCHANGED <<ovVars, hasSelector, probe>>

\* init() passing the saved value on without the SUPPORTED_LANGS test
InitService_trustsSaved ==
    /\ ~inited
    /\ LET saved == stored
           initialLang == IF saved # Null THEN saved ELSE DEFAULT_LANG
       IN  /\ bound' = (GetElementById(SelectorId) # Null)
           /\ calls' = Append(calls, LoadLanguage(initialLang, initialLang, 1))
    /\ inited' = TRUE
    /\ UNCHANGED <<currentLang, translations, stored, selectorValue, page,
                   consoleErrors, lastWriter, ovVars, hasSelector, probe>>

\* init(), run by the DOMContentLoaded listener
InitService ==
    /\ ~inited
    /\ LET saved == stored
           initialLang == IF saved \in SUPPORTED_LANGS THEN saved ELSE DEFAULT_LANG
       IN  /\ bound' = (GetElementById(SelectorId) # Null)
           /\ calls' = Append(calls, LoadLanguage(initialLang, initialLang, 1))
    /\ inited' = TRUE
    /\ UNCHANGED <<currentLang, translations, stored, selectorValue, page,
                   consoleErrors, lastWriter, ovVars, hasSelector, probe>>

\* the selector's "change" listener: the user picked the option of value v
SelectLanguage(v) ==
    /\ bound
    /\ Len(calls) < MaxCalls
    /\ selectorValue' = v
    /\ calls' = Append(calls, LoadLanguage(v, v, 1))
    /\ UNCHANGED <<inited, bound, currentLang, translations, stored, page,
                   consoleErrors, lastWriter, ovVars, hasSelector, probe>>

(***************************************************************************)
(* Overlay operations and events.                                          *)
(***************************************************************************)
\* the record kept of the last overlay call or event
Last(op, id, target) == [op |-> op, id |-> id, target |-> target]

Open(id) ==
    LET st == OpenOverlay(Cur, id)
    IN  /\ active' = st.active
        /\ overflow' = st.overflow
        /\ fault' = st.fault
        /\ last' = Last("open", id, NoNode)
        /\ UNCHANGED <<i18nVars, hasSelector, probe>>

Close(id) ==
    LET st == CloseOverlay(Cur, id)
    IN  /\ active' = st.active
        /\ overflow' = st.overflow
        /\ fault' = st.fault
        /\ last' = Last("close", id, NoNode)
        /\ UNCHANGED <<i18nVars, hasSelector, probe>>

CloseAll(except) ==
    LET st == CloseAllOverlays(Cur, except)
    IN  /\ active' = st.active
        /\ overflow' = st.overflow
        /\ fault' = st.fault
        /\ last' = Last("closeAll", except, NoNode)
        /\ UNCHANGED <<i18nVars, hasSelector, probe>>

Toggle(id) ==
    LET st == ToggleOverlay(Cur, id)
    IN  /\ active' = st.active
        /\ overflow' = st.overflow
        /\ fault' = st.fault
        /\ last' = Last("toggle", id, NoNode)
        /\ UNCHANGED <<i18nVars, hasSelector, probe>>

Click(target) ==
    LET st == ClickEffect(Cur, target)
    IN  /\ active' = st.active
        /\ overflow' = st.overflow
        /\ fault' = st.fault
        /\ last' = Last("click", Null, target)
        /\ UNCHANGED <<i18nVars, hasSelector, probe>>

Keydown(key) ==
    LET st == DocumentKeydown(Cur, key)
    IN  /\ active' = st.active
        /\ overflow' = st.overflow
        /\ fault' = st.fault
        /\ last' = Last("keydown", key, NoNode)
        /\ UNCHANGED <<i18nVars, hasSelector, probe>>

Init ==
    /\ active = [e \in ElementIds |-> FALSE]
    /\ overflow = ""
    /\ fault = "none"
    /\ last = Last("load", Null, NoNode)
    /\ hasSelector \in BOOLEAN
    /\ inited = FALSE
    /\ bound = FALSE
    /\ currentLang = DEFAULT_LANG
    /\ translations = EmptyObj
    /\ stored \in StoredAtStart
    /\ selectorValue = Null
    /\ page = [id \in MarkedIds |-> OriginalText]
    /\ calls = <<>>
    /\ consoleErrors = 0
    /\ lastWriter = 0
    /\ probe = NoProbe

NextLoader ==
    \/ InitService
    \/ \E v \in Codes : SelectLanguage(v)
    \/ \E i \in 1..MaxCalls, o \in FetchOutcomes : FetchResponds(i, o)
    \/ \E i \in 1..MaxCalls, b \in BOOLEAN : JsonResolves(i, b)

NextOverlay ==
    \/ \E id \in RegisteredIds : Open(id)
    \/ \E id \in RegisteredIds : Close(id)
    \/ \E id \in RegisteredIds : Toggle(id)
    \/ \E ex \in RegisteredIds \cup {Null} : CloseAll(ex)
    \/ \E n \in Nodes : Click(n)
    \/ \E k \in Keys : Keydown(k)

\* calls whose id is not a registered overlay's
NextUnregistered ==
    \/ \E id \in AnyIds \ RegisteredIds : Open(id)
    \/ \E id \in AnyIds \ RegisteredIds : Close(id)
    \/ \E id \in AnyIds \ RegisteredIds : Toggle(id)

Next == NextLoader \/ NextOverlay

NextAnyId == NextOverlay \/ NextUnregistered

\* the whole page: both components, calls passing registered ids
Spec == Init /\ [][Next]_vars

\* the overlay controller alone (the two components share no state), used
\* as the registry expects: calls pass registered ids
SpecOverlay == Init /\ [][NextOverlay]_vars

\* the overlay controller, callers passing any id
SpecOverlayAnyId == Init /\ [][NextAnyId]_vars

\* the translation service alone
SpecLoader == Init /\ [][NextLoader]_vars

MaxFairCalls == 2

\* the translation service with at most MaxFairCalls top-level calls
NextLoaderFair ==
    \/ InitService
    \/ \E v \in Codes : Len(calls) < MaxFairCalls /\ SelectLanguage(v)
    \/ \E i \in 1..MaxCalls, o \in FetchOutcomes : FetchResponds(i, o)
    \/ \E i \in 1..MaxCalls, b \in BOOLEAN : JsonResolves(i, b)

\* every fetch and every body read eventually settles
Responsive ==
    \A i \in 1..MaxCalls :
        /\ WF_vars(\E o \in FetchOutcomes : FetchResponds(i, o))
        /\ WF_vars(\E b \in BOOLEAN : JsonResolves(i, b))

\* the translation service, every request eventually answered
FairSpecLoader == Init /\ [][NextLoaderFair]_vars /\ Responsive

(***************************************************************************)
(* getTranslationValue on its own: the map and the path range over bounded *)
(* sets.                                                                   *)
(***************************************************************************)
MaxPathLen == 3

Segments == {"nav", "home", "length"}

\* token sequences that spell a path: no two segments without a "." between
WellFormed(p) ==
    \A k \in 1..(Len(p) - 1) : p[k] = "." \/ p[k + 1] = "."

Paths ==
    {p \in UNION {[1..n -> Segments \cup {"."}] : n \in 0..MaxPathLen} :
        WellFormed(p)}

Leaves == {Str("Home"), Str("")}

ObjectsOver(keys, values) ==
    {Obj(f) : f \in UNION {[D -> values] : D \in SUBSET keys}}

\* parsed bodies of depth at most two
SampleMaps == ObjectsOver({"nav", "home"}, Leaves \cup ObjectsOver({"home"}, Leaves))

\* getTranslationValue(path) is called and its result kept
Resolve(p) ==
    /\ probe' = [done |-> TRUE, path |-> p,
                 value |-> GetTranslationValue(translations, p)]
    /\ UNCHANGED <<ovVars, i18nVars, hasSelector>>

InitResolve ==
    /\ active = [e \in ElementIds |-> FALSE]
    /\ overflow = ""
    /\ fault = "none"
    /\ last = Last("load", Null, NoNode)
    /\ hasSelector = FALSE
    /\ inited = FALSE
    /\ bound = FALSE
    /\ currentLang = DEFAULT_LANG
    /\ translations \in SampleMaps
    /\ stored = Null
    /\ selectorValue = Null
    /\ page = [id \in MarkedIds |-> OriginalText]
    /\ calls = <<>>
    /\ consoleErrors = 0
    /\ lastWriter = 0
    /\ probe = NoProbe

NextResolve == \E p \in Paths : Resolve(p)

\* key resolution over every sample map and path
SpecResolve == InitResolve /\ [][NextResolve]_vars

(***************************************************************************)
(* Overlay controller: properties.                                         *)
(***************************************************************************)
OpenIds == {id \in RegisteredIds : active[id]}

OverlayCalls == {"open", "close", "closeAll", "toggle"}

ScrollLocked == overflow = "hidden"

\* C1: after every step of any sequence of open, close, closeAll, toggle
\* calls on registered ids and of backdrop-click / Escape events, at most
\* one registered overlay is OPEN.
C1_MutualExclusion == Cardinality(OpenIds) <= 1

\* an open call has switched to the shop overlay
C1_Witness ==
    /\ last = Last("open", ShopId, NoNode)
    /\ OpenIds = {ShopId}

\* C2: after every open, close, closeAll or toggle call on a registered id,
\* scroll is locked (overflow "hidden") iff anyOverlayOpen() is true.
C2_ScrollLockCoupling ==
    last.op \in OverlayCalls => (ScrollLocked <=> AnyOverlayOpen(active))

\* a close call has released the lock
C2_Witness ==
    /\ last.op = "close"
    /\ overflow = "auto"
    /\ ~AnyOverlayOpen(active)

\* C3: open(id) with an id that is no registered overlay's fails with an
\* error, whether or not another element of the page carries the id.
C3_UnregisteredOpenFails ==
    (last.op = "open" /\ last.id \notin RegisteredIds) => fault # "none"

IsBackdrop(n) == n.part = "overlay"

InContent(n) == n.part \in {"inner", "item"}

OutsideOverlays(n) == n.ov = Null

Dismissed ==
    \/ last.op = "keydown" /\ last.id = "Escape"
    \/ last.op = "click" /\ IsBackdrop(last.target)

\* C4: an Escape key-press, or a click on an overlay's backdrop outside
\* every content region, leaves every registered overlay CLOSED and the
\* scroll lock released.
C4_DismissalClosesAll ==
    Dismissed => (OpenIds = {} /\ ~ScrollLocked /\ overflow = "auto")

\* Escape was pressed and everything is closed, scrolling restored
C4_Witness ==
    /\ last = Last("keydown", "Escape", NoNode)
    /\ OpenIds = {}
    /\ overflow = "auto"

C6_OpenIdempotent ==
    (last.op = "open" /\ last.id \in RegisteredIds) =>
        LET again == OpenOverlay(Cur, last.id)
        IN  /\ OpenIds = {last.id}
            /\ ScrollLocked
            /\ again.active = active
            /\ again.overflow = overflow
            /\ again.fault = "none"

\* open(stories) has run
C6_Witness ==
    /\ last = Last("open", StoriesId, NoNode)
    /\ active[StoriesId]

\* C7: toggle(id) ends in the state open(id) ends in when id is CLOSED, and
\* in the state close(id) ends in when id is OPEN.
C7_ToggleSymmetry ==
    \A id \in RegisteredIds :
        ToggleOverlay(Cur, id) =
            IF active[id] THEN CloseOverlay(Cur, id) ELSE OpenOverlay(Cur, id)

\* a toggle has closed the shop overlay
C7_Witness ==
    /\ last = Last("toggle", ShopId, NoNode)
    /\ ~active[ShopId]
    /\ overflow = "auto"

\* C15: closeAll(exceptId) leaves every registered overlay other than
\* exceptId CLOSED and the overlay matching exceptId as it was; close(id)
\* changes the state of no overlay other than id.
C15_CloseFrame ==
    [][/\ last'.op = "closeAll" =>
              \A id \in RegisteredIds :
                  IF id = last'.id THEN active'[id] = active[id]
                  ELSE ~active'[id]
       /\ last'.op = "close" =>
              \A id \in ElementIds \ {last'.id} : active'[id] = active[id]]_vars

\* closeAll(shop) has run and the shop overlay is still open
C15_Witness ==
    /\ last = Last("closeAll", ShopId, NoNode)
    /\ active[ShopId]
    /\ ~active[StoriesId]

\* C17: when open(id) fails because no element has the id, the close pass
\* has already run: every registered overlay is CLOSED and the scroll lock
\* released.
C17_FailedOpenCloses ==
    (last.op = "open" /\ fault = "TypeError") =>
        /\ GetElementById(last.id) = Null
        /\ OpenIds = {}
        /\ overflow = "auto"

\* open of an id no element carries has thrown
C17_Witness ==
    /\ last = Last("open", MissingId, NoNode)
    /\ fault = "TypeError"
    /\ OpenIds = {}
    /\ overflow = "auto"

(***************************************************************************)
(* Translation service: properties.                                        *)
(***************************************************************************)
Settled(c) == c.pc \in {"applied", "failed"}

\* call i has just run its success branch
Applies(i) ==
    /\ i \in DOMAIN calls
    /\ calls[i].pc = "json"
    /\ calls'[i].pc = "applied"

C8_RequestsDefault ==
    \A i \in DOMAIN calls :
        calls[i].arg \notin SUPPORTED_LANGS => calls[i].safeLang = DEFAULT_LANG

C8_AppliesDefault ==
    \A i \in 1..MaxCalls :
        (Applies(i) /\ calls[i].arg \notin SUPPORTED_LANGS) =>
            /\ translations' = Resource(DEFAULT_LANG)
            /\ currentLang' = DEFAULT_LANG
            /\ stored' = DEFAULT_LANG
            /\ page' = ApplyTranslations(page, Resource(DEFAULT_LANG))

C8_WritesSupported == stored' # stored => stored' \in SUPPORTED_LANGS

\* C8: loadLanguage(code) with an unsupported code requests the default
\* language's resource and on success applies the default's content; every
\* value the loader writes to the persisted preference is a supported code.
C8_LanguageFallback ==
    /\ []C8_RequestsDefault
    /\ [][C8_AppliesDefault /\ C8_WritesSupported]_vars

\* loadLanguage("fr") succeeded: English is applied and persisted
C8_Witness ==
    \E i \in DOMAIN calls :
        /\ calls[i].arg = "fr"
        /\ calls[i].pc = "applied"
        /\ currentLang = "en"
        /\ stored = "en"
        /\ page["home-link"] = "Home"

NonDefaultSupported == SUPPORTED_LANGS \ {DEFAULT_LANG}

C9_AttemptBound ==
    \A i \in DOMAIN calls :
        LET c == calls[i]
        IN  /\ c.attempts \in {1, 2}
            /\ c.attempts = 2 =>
                   (c.arg \in NonDefaultSupported /\ c.safeLang = DEFAULT_LANG)
            /\ c.pc = "failed" =>
                   c.attempts = IF c.arg \in NonDefaultSupported THEN 2 ELSE 1

\* C9: every loadLanguage call ends after a bounded number of attempts when
\* every fetch responds: two attempts when a non-default language and then
\* the default fail, one when the sanitized code is the default and fails.
C9_FallbackBound ==
    /\ []C9_AttemptBound
    /\ \A i \in 1..MaxCalls :
           (i \in DOMAIN calls) ~> (i \in DOMAIN calls /\ Settled(calls[i]))

\* loadLanguage("hu") ended after the Hungarian and the English fetch failed
C9_Witness ==
    \E i \in DOMAIN calls :
        /\ calls[i].arg = "hu"
        /\ calls[i].pc = "failed"
        /\ calls[i].attempts = 2
        /\ consoleErrors >= 2

\* call i has just run its catch branch
Fails(i) ==
    /\ i \in DOMAIN calls
    /\ calls[i].pc \in {"fetch", "json"}
    /\ calls' = [calls EXCEPT ![i] =
                    IF calls[i].safeLang # DEFAULT_LANG
                    THEN [calls[i] EXCEPT !.safeLang = DEFAULT_LANG,
                                          !.pc = "fetch",
                                          !.attempts = @ + 1]
                    ELSE [calls[i] EXCEPT !.pc = "failed"]]

\* C10: a failed load attempt leaves currentLang, the translation map, the
\* persisted preference and the page text unchanged; it only logs and, when
\* the sanitized code is not the default, retries once with the default.
C10_FailureKeepsState ==
    [][consoleErrors' # consoleErrors =>
          /\ consoleErrors' = consoleErrors + 1
          /\ UNCHANGED <<currentLang, translations, stored, page, selectorValue>>
          /\ \E i \in 1..MaxCalls : Fails(i)]_vars

\* the default language failed after Hungarian was applied: the page keeps
\* the Hungarian text
C10_Witness ==
    /\ \E i \in DOMAIN calls : calls[i].pc = "failed"
    /\ currentLang = "hu"
    /\ stored = "hu"
    /\ translations = Resource("hu")
    /\ page["home-link"] = "Fooldal"

AllSettled == \A i \in DOMAIN calls : Settled(calls[i])

\* C11: overlapping loadLanguage calls complete in any order, and currentLang,
\* the translation map and the persisted preference are those of the
\* successful response that completed last, whatever the order of the calls.
C11_LastWriteWins ==
    lastWriter # 0 =>
        /\ lastWriter \in DOMAIN calls
        /\ calls[lastWriter].pc = "applied"
        /\ currentLang = calls[lastWriter].safeLang
        /\ translations = Resource(calls[lastWriter].safeLang)
        /\ stored = calls[lastWriter].safeLang

\* two overlapping calls both succeeded, the first-issued one last: its
\* language is the one in force
C11_Witness ==
    /\ Len(calls) >= 2
    /\ AllSettled
    /\ calls[1].pc = "applied" /\ calls[1].attempts = 1
    /\ calls[2].pc = "applied"
    /\ calls[1].safeLang # calls[2].safeLang
    /\ lastWriter = 1
    /\ currentLang = calls[1].safeLang
    /\ stored = calls[1].safeLang

\* C18: once a load has succeeded, in every state between event-loop steps
\* currentLang equals the persisted preference and the translation map is
\* the one fetched for currentLang, whatever loads are in flight.
C18_StateConsistent ==
    (\E i \in DOMAIN calls : calls[i].pc = "applied") =>
        /\ currentLang = stored
        /\ translations = Resource(currentLang)

\* German is loaded and persisted while two other loads are in flight
C18_Witness ==
    /\ \E i \in DOMAIN calls : calls[i].pc = "applied"
    /\ Cardinality({j \in DOMAIN calls : ~Settled(calls[j])}) >= 2
    /\ currentLang = "de"
    /\ stored = "de"

\* the fallback of the earlier-issued call i wrote after the later-issued
\* call j had succeeded
FallbackOvertakes(i, j) ==
    /\ i < j
    /\ calls[i].pc = "applied" /\ calls[i].attempts = 2
    /\ calls[j].pc = "applied"
    /\ lastWriter = i

\* C19: when the default-language fallback of an earlier-issued request
\* completes after a later-issued request has succeeded, currentLang, the
\* translation map and the persisted preference end as the default's.
C19_FallbackRace ==
    \A i \in DOMAIN calls : \A j \in DOMAIN calls :
        FallbackOvertakes(i, j) =>
            /\ currentLang = DEFAULT_LANG
            /\ translations = Resource(DEFAULT_LANG)
            /\ stored = DEFAULT_LANG

\* German was selected later and loaded, then the fallback of the earlier
\* failed request wrote English
C19_Witness ==
    /\ AllSettled
    /\ \E i \in DOMAIN calls : \E j \in DOMAIN calls :
           /\ FallbackOvertakes(i, j)
           /\ calls[j].arg = "de" /\ calls[j].attempts = 1
    /\ currentLang = "en"
    /\ stored = "en"
    /\ selectorValue = "en"

\* the string the key of marked element m resolves to in map tr, if any
ResolvesToText(tr, m) ==
    LET v == GetTranslationValue(tr, m.key)
    IN  v.t = "str" /\ v.s # ""

C12_SuccessEffect(i) ==
    LET lang == calls[i].safeLang
    IN  /\ lang \in SUPPORTED_LANGS
        /\ calls[i].attempts = 1 =>
               lang = IF calls[i].arg \in SUPPORTED_LANGS THEN calls[i].arg
                      ELSE DEFAULT_LANG
        /\ translations' = Resource(lang)
        /\ currentLang' = lang
        /\ stored' = lang
        /\ hasSelector => selectorValue' = lang
        /\ \A m \in MarkedElements :
               ResolvesToText(Resource(lang), m) =>
                   page'[m.id] = GetTranslationValue(Resource(lang), m.key).s

\* C12: a successful load replaces the translation map wholesale by the
\* parsed result, sets currentLang to the sanitized code, persists it, shows
\* it in the language-selection control when present and re-applies the
\* translations to the page.
C12_SuccessReplaces ==
    [][\A i \in 1..MaxCalls : Applies(i) => C12_SuccessEffect(i)]_vars

\* Hungarian was loaded over a map that had nav.shop and brand: the map is
\* the Hungarian one alone, the control shows "hu"
C12_Witness ==
    /\ lastWriter # 0
    /\ currentLang = "hu"
    /\ stored = "hu"
    /\ selectorValue = "hu"
    /\ translations = Resource("hu")
    /\ page["home-link"] = "Fooldal"
    /\ page["logo"] = "Nobelian Logo"

\* C13: applyTranslations leaves unmodified every marked element whose key
\* resolves to nothing, to an object or to undefined; only elements whose
\* key resolves to a string are rewritten.
C13_UnresolvedUntouched ==
    [][\A m \in MarkedElements :
          GetTranslationValue(translations', m.key).t # "str" =>
              page'[m.id] = page[m.id]]_vars

(***************************************************************************)
(* Key resolution: properties.                                             *)
(***************************************************************************)
NotFound == [t |-> "notfound"]

\* descent as the claim words it: one segment at a time, "not found" as
\* soon as the value at hand is not an object with the segment as own key
RECURSIVE DescendObjects(_, _)
DescendObjects(v, parts) ==
    IF parts = <<>> THEN v
    ELSE IF v.t = "obj" /\ Head(parts) \in DOMAIN v.f
         THEN DescendObjects(v.f[Head(parts)], Tail(parts))
         ELSE NotFound

ClaimedValue(tr, path) ==
    IF path = <<>> THEN NotFound ELSE DescendObjects(tr, Split(path))

\* what callers take as "not found": undefined, or the "" of an empty path
ReportsNotFound(path, value) ==
    value = Undefined \/ (path = <<>> /\ value = Str(""))

\* C14: key resolution returns the value reached by descending one segment
\* at a time, and "not found" as soon as an intermediate value is absent or
\* is not an object with that segment as an own key; an empty path is
\* "not found".
C14_KeyResolution ==
    probe.done =>
        LET want == ClaimedValue(translations, probe.path)
        IN  IF want = NotFound
            THEN ReportsNotFound(probe.path, probe.value)
            ELSE probe.value = want

(***************************************************************************)
(* init: properties.                                                       *)
(***************************************************************************)
C16_InitStep ==
    (~inited /\ inited') =>
        /\ calls = <<>>
        /\ Len(calls') = 1
        /\ calls'[1].pc = "fetch"
        /\ calls'[1].arg = IF stored \in SUPPORTED_LANGS THEN stored
                           ELSE DEFAULT_LANG
        /\ calls'[1].safeLang = calls'[1].arg
        /\ stored' = stored
        /\ bound' = hasSelector

\* C16: init() issues exactly one initial loadLanguage call, for the
\* persisted preference when it is a supported code and for "en" otherwise;
\* it does not write the preference, and the selection control is wired by
\* the time that load is in flight.
C16_InitialLoad ==
    /\ [](calls # <<>> => (inited /\ bound = hasSelector))
    /\ [][C16_InitStep /\ (inited => inited')]_vars

\* init ran with "fr" persisted: English is requested, "fr" still stored
C16_Witness ==
    /\ inited
    /\ Len(calls) = 1
    /\ calls[1].arg = "en" /\ calls[1].pc = "fetch"
    /\ stored = "fr"
    /\ bound

====
